---- MODULE Spec2Model ----
(***************************************************************************)
(* PodPulse (src/app.py): a Streamlit script over an OAuth provider, a     *)
(* hosted datastore (tables user_profiles and podcasts) and a feed parser. *)
(*                                                                         *)
(* A Streamlit session re-executes the script top to bottom after every    *)
(* user interaction; an on_change callback runs before that execution.     *)
(* Each session is modelled by its st.session_state, the widgets of its    *)
(* last rendering, and its position in the script.  An execution of the    *)
(* script is cut into steps at its calls on the podcasts table, each of    *)
(* which returns or raises, so that the reads and writes of several        *)
(* sessions interleave as they do on the shared datastore.  An uncaught    *)
(* exception ends the execution and leaves the error page.                 *)
(*                                                                         *)
(* Text is modelled as a sequence of one-character strings wherever the    *)
(* code looks inside it (str.strip on the source input); other text        *)
(* values are opaque strings.                                              *)
(***************************************************************************)
EXTENDS Integers, Sequences, FiniteSets, TLC

(***************************************************************************)
(* Bounds of the model.                                                    *)
(***************************************************************************)
MaxProjects == 2      \* rows the podcasts table may hold
MaxFaults == 1        \* external calls that may raise in one behaviour
MaxFeedSources == 2   \* length of the list handed to fetch_all_news
MaxEntries == 3       \* entries of one parsed feed
MaxLimit == 2         \* per-source limit handed to fetch_all_news

Sessions == {"s1", "s2"}

\* E-mails the userinfo endpoint answers with: every session is the same owner's.
Emails == {"u1"}

\* Texts typed into the "Add Source:" input.
InputTexts ==
    { <<>>, <<" ">>, <<"a">>, <<" ", "a", " ">>, <<"b">>, <<"c">> }

\* Names typed into the "Name" input of the create form.  NEW_PODCAST is the
\* last entry of the "Project:" selectbox (written with a plus sign here).
NEW_PODCAST == "+ New Podcast"
ProjectNames == {"P", "Q", NEW_PODCAST}

\* Values typed into the Theme and Goal inputs, chosen in the language
\* selectbox and typed into "Type your language:".  KEEP stands for a widget
\* the user left at the default the script computed for it.
KEEP == "<default>"
ThemeInputs == {"T"}
GoalInputs == {"G"}
SelectionInputs == {KEEP, "Other..."}
CustomInputs == {"Telugu"}

Range(f) == { f[i] : i \in DOMAIN f }

NoDup(list) == \A i, j \in DOMAIN list : list[i] = list[j] => i = j

(***************************************************************************)
(* str.strip(): drops leading and trailing whitespace.                     *)
(***************************************************************************)
Whitespace == {" "}

RECURSIVE LStrip(_)
LStrip(t) ==
    IF t = <<>> THEN t
    ELSE IF Head(t) \in Whitespace THEN LStrip(Tail(t)) ELSE t

RECURSIVE RStrip(_)
RStrip(t) ==
    IF t = <<>> THEN t
    ELSE IF t[Len(t)] \in Whitespace THEN RStrip(SubSeq(t, 1, Len(t) - 1)) ELSE t

Strip(t) == RStrip(LStrip(t))

\* Mutation of Pop: list.pop() drops the last entry whatever i is.
PopLast(list, i) == SubSeq(list, 1, Len(list) - 1)

\* list.pop(i) with a 0-based index i: the list that remains.
Pop(list, i) == SubSeq(list, 1, i) \o SubSeq(list, i + 2, Len(list))

(***************************************************************************)
(* The datastore.  podcasts is the table in insertion order; a row's id is *)
(* its position.  A column the insert does not name holds the table's      *)
(* default: empty text, an empty source list, and no value (NO_VALUE) for  *)
(* the two language columns.                                               *)
(***************************************************************************)
NO_VALUE == "<no value>"
NO_EMAIL == "<no email>"
NO_ID == 0

VARIABLES
    podcasts,        \* table podcasts: sequence of rows
    user_profiles,   \* table user_profiles: set of e-mails upserted
    session_state,   \* st.session_state of every session
    query_params,    \* "code" in st.query_params, per session
    run,             \* per session: position in the script and widgets
    lastOp,          \* the step taken last and its outcome
    faults,          \* external calls that have raised so far
    scope,           \* what the users of this behaviour may do (fixed)
    rss_sources,     \* fetch_all_news: argument rss_sources (feed outcomes)
    limit,           \* fetch_all_news: argument limit
    src_i,           \* fetch_all_news: sources consumed by the for loop
    articles,        \* fetch_all_news: local articles
    fpc,             \* fetch_all_news: "loop" or "done"
    news             \* fetch_all_news: the value returned

appVars == <<podcasts, user_profiles, session_state, query_params, run, lastOp, faults,
            scope>>
fetchVars == <<rss_sources, limit, src_i, articles, fpc, news>>
vars == <<podcasts, user_profiles, session_state, query_params, run, lastOp, faults,
          scope,
          rss_sources, limit, src_i, articles, fpc, news>>

\* supabase.table("podcasts").insert({"owner_email":..., "podcast_name":...})
InsertPodcast(rows, owner, name) ==
    Append(rows, [id |-> Len(rows) + 1,
                  owner_email |-> owner,
                  podcast_name |-> name,
                  theme |-> "",
                  episode_goal |-> "",
                  language |-> NO_VALUE,
                  target_language |-> NO_VALUE,
                  trusted_sources |-> <<>>])

\* Mutation of UpdateSources: the new list is merged into the persisted one.
UpdateSourcesMerged(rows, id, list) ==
    [i \in DOMAIN rows |->
        IF rows[i].id = id
        THEN [rows[i] EXCEPT !.trusted_sources =
                 @ \o SelectSeq(list, LAMBDA url : url \notin Range(@))]
        ELSE rows[i]]

\* .update({"trusted_sources": list}).eq("id", id)
UpdateSources(rows, id, list) ==
    [i \in DOMAIN rows |->
        IF rows[i].id = id THEN [rows[i] EXCEPT !.trusted_sources = list]
        ELSE rows[i]]

\* .update({"theme", "episode_goal", "language", "trusted_sources"}).eq("id", id)
UpdateConfig(rows, id, theme, focus, target_lang, list) ==
    [i \in DOMAIN rows |->
        IF rows[i].id = id
        THEN [rows[i] EXCEPT !.theme = theme,
                             !.episode_goal = focus,
                             !.language = target_lang,
                             !.trusted_sources = list]
        ELSE rows[i]]

\* .select("*").eq("owner_email", email): the owner's rows, in table order.
SelectByOwner(rows, email) == SelectSeq(rows, LAMBDA r : r.owner_email = email)

(***************************************************************************)
(* The sidebar: podcast_options, the project selectbox and the widgets of  *)
(* the selected project.                                                   *)
(***************************************************************************)
\* Keys of {p['podcast_name']: p for p in data}: first occurrences, in order.
RECURSIVE OptionKeys(_)
OptionKeys(data) ==
    IF data = <<>> THEN <<>>
    ELSE LET rest == OptionKeys(SubSeq(data, 1, Len(data) - 1))
             name == data[Len(data)].podcast_name
         IN  IF name \in Range(rest) THEN rest ELSE Append(rest, name)

\* podcast_options[name]: the last row of that name.
OptionValue(data, name) ==
    LET at == { i \in DOMAIN data : data[i].podcast_name = name }
    IN  data[CHOOSE i \in at : \A j \in at : j <= i]

SelectOptions(data) == OptionKeys(data) \o <<NEW_PODCAST>>

\* st.selectbox: the widget keeps the chosen position while its options are
\* the ones it was drawn with, and starts at the first option otherwise.
SelectboxValue(widget, options) ==
    IF widget.options = options THEN options[widget.index] ELSE options[1]

SelectboxWidget(widget, options) ==
    IF widget.options = options THEN widget
    ELSE [options |-> options, index |-> 1]

standard_langs ==
    <<"English", "Tamil", "Spanish", "French", "Hindi", "German", "Japanese">>

\* curr.get(key, default) for a column the row may hold no value for.
Get(value, default) == IF value = NO_VALUE THEN default ELSE value

ThemeWidget(curr, typed) == IF typed = KEEP THEN curr.theme ELSE typed

GoalWidget(curr, typed) == IF typed = KEEP THEN curr.episode_goal ELSE typed

\* Lines 144-163: the language selectbox and the free-text override.
TargetLang(curr, chosen, typed) ==
    LET db_lang == Get(curr.target_language, "English")
        options == standard_langs \o <<"Other...">>
        default_index ==
            IF db_lang \in Range(standard_langs)
            THEN CHOOSE i \in DOMAIN standard_langs : standard_langs[i] = db_lang
            ELSE Len(standard_langs) + 1
        selection == IF chosen = KEEP THEN options[default_index] ELSE chosen
        custom_val == IF db_lang \notin Range(standard_langs) THEN db_lang ELSE ""
    IN  IF selection = "Other..."
        THEN IF typed = KEEP THEN custom_val ELSE typed
        ELSE selection


(***************************************************************************)
(* Session state and the callbacks on it.                                  *)
(*                                                                         *)
(* session_state[s]: access_token is TRUE when the key is present;         *)
(* user_email is NO_EMAIL and current_podcast_id is NO_ID while their keys *)
(* are absent; source_list is set together with current_podcast_id and is  *)
(* read with a default of [] before that.                                  *)
(***************************************************************************)
InitialSessionState ==
    [access_token |-> FALSE,
     user_email |-> NO_EMAIL,
     current_podcast_id |-> NO_ID,
     source_list |-> <<>>,
     url_input |-> <<>>]

\* Mutation of update_sources_in_db: an empty list is not written.
update_sources_if_any(st, rows) ==
    IF st.current_podcast_id # NO_ID /\ st.source_list # <<>>
    THEN UpdateSources(rows, st.current_podcast_id, st.source_list)
    ELSE rows

update_sources_in_db(st, rows) ==
    IF st.current_podcast_id # NO_ID
    THEN UpdateSources(rows, st.current_podcast_id, st.source_list)
    ELSE rows

\* Mutation of add_source: membership is tested on the text as typed.
add_source_unstripped(st, rows, typed, db_ok) ==
    LET new_url == Strip(typed)
        appended == [st EXCEPT !.source_list = Append(st.source_list, new_url),
                               !.url_input = typed]
    IN  IF new_url # <<>> /\ typed \notin Range(st.source_list)
        THEN IF db_ok
             THEN [state |-> [appended EXCEPT !.url_input = <<>>],
                   rows |-> update_sources_in_db(appended, rows),
                   outcome |-> "accepted"]
             ELSE [state |-> appended, rows |-> rows, outcome |-> "failed"]
        ELSE [state |-> [st EXCEPT !.url_input = <<>>],
              rows |-> rows,
              outcome |-> "ignored"]

\* Mutation of add_source: the input is cleared only when the URL is added.
add_source_keeps_input(st, rows, typed, db_ok) ==
    LET new_url == Strip(typed)
        appended == [st EXCEPT !.source_list = Append(st.source_list, new_url),
                               !.url_input = typed]
    IN  IF new_url # <<>> /\ new_url \notin Range(st.source_list)
        THEN IF db_ok
             THEN [state |-> [appended EXCEPT !.url_input = <<>>],
                   rows |-> update_sources_in_db(appended, rows),
                   outcome |-> "accepted"]
             ELSE [state |-> appended, rows |-> rows, outcome |-> "failed"]
        ELSE [state |-> [st EXCEPT !.url_input = typed],
              rows |-> rows,
              outcome |-> "ignored"]

\* The on_change callback of "Add Source:", the widget holding `typed`.
\* db_ok: the datastore call returns; otherwise it raises and the callback
\* ends at line 45.
add_source(st, rows, typed, db_ok) ==
    LET new_url == Strip(typed)
        appended == [st EXCEPT !.source_list = Append(st.source_list, new_url),
                               !.url_input = typed]
    IN  IF new_url # <<>> /\ new_url \notin Range(st.source_list)
        THEN IF db_ok
             THEN [state |-> [appended EXCEPT !.url_input = <<>>],
                   rows |-> update_sources_in_db(appended, rows),
                   outcome |-> "accepted"]
             ELSE [state |-> appended, rows |-> rows, outcome |-> "failed"]
        ELSE [state |-> [st EXCEPT !.url_input = <<>>],
              rows |-> rows,
              outcome |-> "ignored"]

\* Lines 114-117.  outcome: which call of the login raises, if any.
AuthOutcomes == {"exchange_failed", "userinfo_failed", "upsert_failed", "ok"}

\* Mutation of ExchangeCode: token_data.get("access_token") stores a token
\* entry even when the exchange returned none.
ExchangeCodeLenient(st, outcome, email) ==
    CASE outcome = "ok" -> [st EXCEPT !.access_token = TRUE, !.user_email = email]
      [] OTHER -> [st EXCEPT !.access_token = TRUE]

ExchangeCode(st, outcome, email) ==
    CASE outcome = "exchange_failed" -> st
      [] outcome \in {"userinfo_failed", "upsert_failed"} ->
            [st EXCEPT !.access_token = TRUE]
      [] OTHER -> [st EXCEPT !.access_token = TRUE, !.user_email = email]

\* Line 120: the script stops at the login page.
LoginGate(st) == ~st.access_token

(***************************************************************************)
(* run[s]: pc is "run" (the script is about to execute from the top),      *)
(* "main" (the sidebar is drawn, a clicked button is still to be handled)  *)
(* or "idle" (the page is drawn and waits for the user);  view is the page *)
(* drawn last;  pending is the button clicked;  selbox is the project      *)
(* selectbox;  curr is the row the sidebar was drawn from.                  *)
(***************************************************************************)
NoPending ==
    [kind |-> "none", name |-> "", idx |-> 0,
     theme |-> KEEP, focus |-> KEEP, chosen |-> KEEP, typed |-> KEEP]

NoRow == [InsertPodcast(<<>>, NO_EMAIL, "")[1] EXCEPT !.id = NO_ID]

NoSent == [theme |-> "", focus |-> "", target_lang |-> "", source_list |-> <<>>]

Op(s, op, outcome) ==
    [sess |-> s, op |-> op, outcome |-> outcome,
     input |-> <<>>, id |-> NO_ID, idx |-> 0, sent |-> NoSent]

InitialRun ==
    [pc |-> "run", view |-> "none", pending |-> NoPending,
     selbox |-> [options |-> <<>>, index |-> 1], curr |-> NoRow]

Idle(r, view) == [r EXCEPT !.pc = "idle", !.view = view,
                           !.pending = NoPending, !.curr = NoRow]

Rerunning(r) == [r EXCEPT !.pc = "run", !.pending = NoPending, !.curr = NoRow]

AppInit ==
    /\ podcasts = <<>>
    /\ user_profiles = {}
    /\ session_state = [s \in Sessions |-> InitialSessionState]
    /\ query_params = [s \in Sessions |-> FALSE]
    /\ run = [s \in Sessions |-> InitialRun]
    /\ lastOp = Op("s1", "init", "ok")
    /\ faults = 0

FetchIdle ==
    /\ rss_sources = <<>>
    /\ limit = 0
    /\ src_i = 0
    /\ articles = <<>>
    /\ fpc = "done"
    /\ news = <<>>

(***************************************************************************)
(* scope fixes, for a whole behaviour, which sessions are opened, how many *)
(* projects are created, which texts and names are typed and how many      *)
(* external calls raise.                                                   *)
(***************************************************************************)
\* One user working on the source list of one project.
ScopeSources ==
    [sessions |-> {"s1"}, projects |-> MaxProjects - 1, faults |-> MaxFaults,
     texts |-> InputTexts, names |-> {"P"}]

\* Two sessions of one owner on the same project.
ScopeSessions ==
    [sessions |-> Sessions, projects |-> MaxProjects - 1, faults |-> 0,
     texts |-> { <<"a">>, <<" ", "a", " ">>, <<"b">> }, names |-> {"P"}]

\* One user with several projects.
ScopeProjects ==
    [sessions |-> {"s1"}, projects |-> MaxProjects, faults |-> 0,
     texts |-> { <<"a">>, <<"b">> }, names |-> ProjectNames]

InitIn(sc) == scope = sc /\ AppInit /\ FetchIdle

Init == InitIn(ScopeSources)

InitSessions == InitIn(ScopeSessions)

InitProjects == InitIn(ScopeProjects)


(***************************************************************************)
(* One execution of the script, in the steps between which the datastore   *)
(* calls of other sessions may fall.                                       *)
(***************************************************************************)
\* Session s is opened in this behaviour and stands at pc.
At(s, pc) == s \in scope.sessions /\ run[s].pc = pc

SetSession(s, st) == session_state' = [session_state EXCEPT ![s] = st]

SetRun(s, r) == run' = [run EXCEPT ![s] = r]

\* An external call returns (ok) or raises; MaxFaults bounds the raises.
Returns(ok) ==
    /\ ok \/ faults < scope.faults
    /\ faults' = IF ok THEN faults ELSE faults + 1

AuthBranch(s) == query_params[s] /\ ~session_state[s].access_token

\* Lines 112-118: the authorization code is exchanged, the e-mail resolved
\* and the profile upserted; st.rerun() follows when nothing raised.
ScriptAuth(s) ==
    /\ At(s, "run")
    /\ AuthBranch(s)
    /\ \E outcome \in AuthOutcomes :
       \E email \in IF outcome = "ok" THEN Emails ELSE {NO_EMAIL} :
          /\ Returns(outcome = "ok")
          /\ SetSession(s, ExchangeCode(session_state[s], outcome, email))
          /\ user_profiles' =
                IF outcome = "ok" THEN user_profiles \cup {email} ELSE user_profiles
          /\ query_params' =
                IF outcome = "ok" THEN [query_params EXCEPT ![s] = FALSE]
                ELSE query_params
          /\ SetRun(s, IF outcome = "ok" THEN Rerunning(run[s])
                       ELSE Idle(run[s], "error"))
          /\ lastOp' = Op(s, "exchange", outcome)
    /\ UNCHANGED <<podcasts, scope, fetchVars>>

\* Lines 120-123: the login page, st.stop().
ScriptGate(s) ==
    /\ At(s, "run")
    /\ ~AuthBranch(s)
    /\ LoginGate(session_state[s])
    /\ SetRun(s, Idle(run[s], "login"))
    /\ lastOp' = Op(s, "gate", "stopped")
    /\ UNCHANGED <<podcasts, user_profiles, session_state, query_params, faults,
                   scope, fetchVars>>

\* The clicked button is drawn again on a page showing `view` and `list`.
Rendered(pending, view, list) ==
    \/ pending.kind \in {"save", "generate"} /\ view = "project"
    \/ pending.kind = "remove" /\ view = "project" /\ pending.idx < Len(list)
    \/ pending.kind = "create" /\ view = "new"

\* Lines 128-163 in session s, whose project selectbox is `selbox` and in
\* which the button `pending` was clicked: the owner's projects are listed,
\* the selectbox is drawn and the selected project becomes the active one.
\* The script goes on to the clicked button if this page draws it.
Sidebar(s, selbox, pending) ==
    /\ ~AuthBranch(s)
    /\ ~LoginGate(session_state[s])
    /\ \E db_ok \in BOOLEAN :
         /\ Returns(db_ok \/ session_state[s].user_email = NO_EMAIL)
         /\ IF db_ok /\ session_state[s].user_email # NO_EMAIL
            THEN LET data == SelectByOwner(podcasts, session_state[s].user_email)
                     options == SelectOptions(data)
                     selected_name == SelectboxValue(selbox, options)
                     widget == SelectboxWidget(selbox, options)
                     active == selected_name # NEW_PODCAST
                     curr == IF active THEN OptionValue(data, selected_name)
                             ELSE NoRow
                     view == IF active THEN "project" ELSE "new"
                     st == IF active
                           THEN [session_state[s] EXCEPT
                                    !.current_podcast_id = curr.id,
                                    !.source_list = curr.trusted_sources]
                           ELSE session_state[s]
                 IN  /\ SetSession(s, st)
                     /\ SetRun(s, IF Rendered(pending, view, st.source_list)
                                  THEN [pc |-> "main", view |-> view,
                                        pending |-> pending, selbox |-> widget,
                                        curr |-> IF pending.kind = "save"
                                                 THEN curr ELSE NoRow]
                                  ELSE [Idle(run[s], view) EXCEPT
                                           !.selbox = widget])
                     /\ lastOp' = [Op(s, "list", "ok") EXCEPT !.id = curr.id]
            ELSE /\ SetSession(s, session_state[s])
                 /\ SetRun(s, Idle(run[s], "error"))
                 /\ lastOp' = Op(s, "list",
                                 IF session_state[s].user_email = NO_EMAIL
                                 THEN "KeyError" ELSE "failed")
    /\ UNCHANGED <<podcasts, user_profiles, query_params, scope, fetchVars>>

\* The script runs from the top after st.rerun(), a callback or a reload.
ScriptLoad(s) ==
    /\ At(s, "run")
    /\ Sidebar(s, run[s].selbox, NoPending)

\* Lines 165-172: "Save & Sync".
HandleSave(s) ==
    /\ At(s, "main")
    /\ run[s].pending.kind = "save"
    /\ LET curr == run[s].curr
           sent == [theme |-> ThemeWidget(curr, run[s].pending.theme),
                    focus |-> GoalWidget(curr, run[s].pending.focus),
                    target_lang |-> TargetLang(curr, run[s].pending.chosen,
                                               run[s].pending.typed),
                    source_list |-> session_state[s].source_list]
       IN  \E db_ok \in BOOLEAN :
             /\ Returns(db_ok)
             /\ IF db_ok
                THEN /\ podcasts' = UpdateConfig(podcasts, curr.id, sent.theme,
                                                 sent.focus, sent.target_lang,
                                                 sent.source_list)
                     /\ SetRun(s, Idle(run[s], "project"))
                     /\ lastOp' = [Op(s, "save", "ok") EXCEPT
                                      !.id = curr.id, !.sent = sent]
                ELSE /\ podcasts' = podcasts
                     /\ SetRun(s, Idle(run[s], "error"))
                     /\ lastOp' = [Op(s, "save", "failed") EXCEPT !.id = curr.id]
    /\ UNCHANGED <<user_profiles, session_state, query_params, scope, fetchVars>>

\* Lines 178-180: "Create".
HandleCreate(s) ==
    /\ At(s, "main")
    /\ run[s].pending.kind = "create"
    /\ \E db_ok \in BOOLEAN :
         /\ Returns(db_ok)
         /\ IF db_ok
            THEN /\ podcasts' = InsertPodcast(podcasts, session_state[s].user_email,
                                              run[s].pending.name)
                 /\ SetRun(s, Rerunning(run[s]))
                 /\ lastOp' = [Op(s, "create", "ok") EXCEPT
                                  !.id = Len(podcasts) + 1]
            ELSE /\ podcasts' = podcasts
                 /\ SetRun(s, Idle(run[s], "error"))
                 /\ lastOp' = Op(s, "create", "failed")
    /\ UNCHANGED <<user_profiles, session_state, query_params, scope, fetchVars>>

\* Lines 189-192: the "X" button of entry idx.
HandleRemove(s) ==
    /\ At(s, "main")
    /\ run[s].pending.kind = "remove"
    /\ LET i == run[s].pending.idx
           popped == [session_state[s] EXCEPT
                         !.source_list = Pop(session_state[s].source_list, i)]
       IN  /\ SetSession(s, popped)
           /\ \E db_ok \in BOOLEAN :
                /\ Returns(db_ok)
                /\ IF db_ok
                   THEN /\ podcasts' = update_sources_in_db(popped, podcasts)
                        /\ SetRun(s, Rerunning(run[s]))
                        /\ lastOp' = [Op(s, "remove", "ok") EXCEPT
                                         !.idx = i,
                                         !.id = popped.current_podcast_id]
                   ELSE /\ podcasts' = podcasts
                        /\ SetRun(s, Idle(run[s], "error"))
                        /\ lastOp' = [Op(s, "remove", "failed") EXCEPT
                                         !.idx = i,
                                         !.id = popped.current_podcast_id]
    /\ UNCHANGED <<user_profiles, query_params, scope, fetchVars>>

\* Lines 194-198: the feeds are fetched and the generation request is sent.
HandleGenerate(s) ==
    /\ At(s, "main")
    /\ run[s].pending.kind = "generate"
    /\ \E ok \in BOOLEAN :
         /\ Returns(ok)
         /\ SetRun(s, Idle(run[s], IF ok THEN "project" ELSE "error"))
         /\ lastOp' = [Op(s, "generate", IF ok THEN "ok" ELSE "failed") EXCEPT
                          !.id = session_state[s].current_podcast_id]
    /\ UNCHANGED <<podcasts, user_profiles, session_state, query_params, scope, fetchVars>>

(***************************************************************************)
(* What the user does with the page drawn last.  Each interaction starts   *)
(* one execution of the script; on a page past the login gate that         *)
(* execution begins with the sidebar.                                      *)
(***************************************************************************)
Interactive(s, views) == At(s, "idle") /\ run[s].view \in views

\* The provider redirects the browser back with ?code=...: a new session.
OAuthRedirect(s) ==
    /\ Interactive(s, {"login"})
    /\ query_params' = [query_params EXCEPT ![s] = TRUE]
    /\ SetSession(s, InitialSessionState)
    /\ SetRun(s, InitialRun)
    /\ lastOp' = Op(s, "ui", "redirect")
    /\ UNCHANGED <<podcasts, user_profiles, faults, scope, fetchVars>>

\* The page is run again with no widget changed.
Rerun(s) ==
    /\ Interactive(s, {"error", "project", "new"})
    /\ SetRun(s, Rerunning(run[s]))
    /\ lastOp' = Op(s, "ui", "rerun")
    /\ UNCHANGED <<podcasts, user_profiles, session_state, query_params, faults,
                   scope, fetchVars>>

\* Another entry of the "Project:" selectbox is chosen.
SelectProject(s, idx) ==
    /\ Interactive(s, {"project", "new"})
    /\ idx \in DOMAIN run[s].selbox.options
    /\ idx # run[s].selbox.index
    /\ Sidebar(s, [run[s].selbox EXCEPT !.index = idx], NoPending)

\* Line 184: the text of "Add Source:" changes; add_source runs before the
\* script does.
TypeSource(s, typed) ==
    /\ Interactive(s, {"project"})
    /\ typed \in scope.texts
    /\ typed # session_state[s].url_input
    /\ \E db_ok \in BOOLEAN :
         LET done == add_source(session_state[s], podcasts, typed, db_ok)
         IN  /\ Returns(done.outcome # "failed")
             /\ SetSession(s, done.state)
             /\ podcasts' = done.rows
             /\ SetRun(s, IF done.outcome = "failed" THEN Idle(run[s], "error")
                          ELSE Rerunning(run[s]))
             /\ lastOp' = [Op(s, "add_source", done.outcome) EXCEPT
                              !.input = typed,
                              !.id = session_state[s].current_podcast_id]
    /\ UNCHANGED <<user_profiles, query_params, scope, fetchVars>>

ClickSave(s, theme, focus, chosen, typed) ==
    /\ Interactive(s, {"project"})
    /\ Sidebar(s, run[s].selbox,
               [NoPending EXCEPT !.kind = "save", !.theme = theme,
                                 !.focus = focus, !.chosen = chosen,
                                 !.typed = typed])

ClickCreate(s, name) ==
    /\ Interactive(s, {"new"})
    /\ name \in scope.names
    /\ Len(podcasts)
         + Cardinality({t \in Sessions : run[t].pending.kind = "create"})
         < scope.projects
    /\ Sidebar(s, run[s].selbox, [NoPending EXCEPT !.kind = "create", !.name = name])

ClickRemove(s, i) ==
    /\ Interactive(s, {"project"})
    /\ i \in 0 .. Len(session_state[s].source_list) - 1
    /\ Sidebar(s, run[s].selbox, [NoPending EXCEPT !.kind = "remove", !.idx = i])

ClickGenerate(s) ==
    /\ Interactive(s, {"project"})
    /\ Sidebar(s, run[s].selbox, [NoPending EXCEPT !.kind = "generate"])

Next ==
    \E s \in Sessions :
       \/ ScriptAuth(s)
       \/ ScriptGate(s)
       \/ ScriptLoad(s)
       \/ HandleSave(s)
       \/ HandleCreate(s)
       \/ HandleRemove(s)
       \/ HandleGenerate(s)
       \/ OAuthRedirect(s)
       \/ Rerun(s)
       \/ \E idx \in 1 .. MaxProjects + 1 : SelectProject(s, idx)
       \/ \E typed \in InputTexts : TypeSource(s, typed)
       \/ \E theme \in ThemeInputs, focus \in GoalInputs,
             chosen \in SelectionInputs, typed \in CustomInputs :
               ClickSave(s, theme, focus, chosen, typed)
       \/ \E name \in ProjectNames : ClickCreate(s, name)
       \/ \E i \in 0 .. Cardinality(InputTexts) : ClickRemove(s, i)
       \/ ClickGenerate(s)

(***************************************************************************)
(* fetch_all_news(rss_sources, limit).  An element of rss_sources is what  *)
(* feedparser.parse does with that source: it raises, or it yields a feed  *)
(* with these entries.  An entry holds title, summary and link, each       *)
(* possibly missing.                                                       *)
(***************************************************************************)
RAISES == [raises |-> TRUE, entries |-> <<>>]

EntryPool ==
    { [title |-> "t1", summary |-> "s1", link |-> "l1"],
      [title |-> "t2", summary |-> NO_VALUE, link |-> NO_VALUE] }

SeqsUpTo(S, n) == UNION { [1 .. k -> S] : k \in 0 .. n }

FeedOutcomes ==
    {RAISES} \cup
    { [raises |-> FALSE, entries |-> e] : e \in SeqsUpTo(EntryPool, MaxEntries) }

\* The f-string of line 54: a missing title or link prints as None, a
\* missing summary as the empty text.
Render(entry) ==
    <<"TITLE: ", Get(entry.title, "None"),
      "\nSUMMARY: ", Get(entry.summary, ""),
      "\nURL: ", Get(entry.link, "None"), "\n">>

\* entries[:n]
Slice(entries, n) ==
    SubSeq(entries, 1, IF n < Len(entries) THEN n ELSE Len(entries))

\* Mutation of AfterRaise: `break` leaves the loop.
AfterRaiseBreak(i, k) == k

\* The sources the for loop still visits once source i has raised:
\* `continue` goes on with source i + 1.
AfterRaise(i, k) == i

\* "\n".join(pieces)
RECURSIVE Join(_)
Join(pieces) ==
    IF pieces = <<>> THEN <<>>
    ELSE IF Len(pieces) = 1 THEN pieces[1]
    ELSE pieces[1] \o <<"\n">> \o Join(Tail(pieces))

FetchStart ==
    /\ rss_sources \in SeqsUpTo(FeedOutcomes, MaxFeedSources)
    /\ limit \in 0 .. MaxLimit
    /\ src_i = 0
    /\ articles = <<>>
    /\ fpc = "loop"
    /\ news = <<>>

\* Lines 50-55: one iteration of `for src in rss_sources`.
FetchSource ==
    /\ fpc = "loop"
    /\ src_i < Len(rss_sources)
    /\ LET feed == rss_sources[src_i + 1]
       IN  IF feed.raises
           THEN /\ src_i' = AfterRaise(src_i + 1, Len(rss_sources))
                /\ articles' = articles
           ELSE /\ src_i' = src_i + 1
                /\ articles' =
                      articles \o [j \in DOMAIN Slice(feed.entries, limit) |->
                                     Render(Slice(feed.entries, limit)[j])]
    /\ UNCHANGED <<rss_sources, limit, fpc, news, appVars>>

\* Line 56.
FetchReturn ==
    /\ fpc = "loop"
    /\ src_i = Len(rss_sources)
    /\ fpc' = "done"
    /\ news' = Join(articles)
    /\ UNCHANGED <<rss_sources, limit, src_i, articles, appVars>>

FetchNext == FetchSource \/ FetchReturn

FetchInit == scope = ScopeSources /\ AppInit /\ FetchStart

SpecFetch == FetchInit /\ [][FetchNext]_vars


Spec == Init /\ [][Next]_vars

SpecSessions == InitSessions /\ [][Next]_vars

SpecProjects == InitProjects /\ [][Next]_vars


(***************************************************************************)
(* Properties.                                                             *)
(***************************************************************************)
Copies(list, url) == Cardinality({ i \in DOMAIN list : list[i] = url })

Row(id) == podcasts[CHOOSE i \in DOMAIN podcasts : podcasts[i].id = id]

\* C1: no session's source list and no persisted list holds a URL twice,
\* and once add_source has handled a text whose stripped form is a URL, the
\* session's list holds exactly one copy of that URL.
C1_NoDuplicateSources ==
    /\ \A s \in Sessions : NoDup(session_state[s].source_list)
    /\ \A i \in DOMAIN podcasts : NoDup(podcasts[i].trusted_sources)
    /\ (lastOp.op = "add_source" /\ Strip(lastOp.input) # <<>>)
          => Copies(session_state[lastOp.sess].source_list,
                    Strip(lastOp.input)) = 1

\* add_source has just ignored a text that differs from a listed URL only by
\* surrounding whitespace.
C1_Witness ==
    /\ lastOp.op = "add_source"
    /\ lastOp.outcome = "ignored"
    /\ lastOp.input = <<" ", "a", " ">>
    /\ Copies(session_state[lastOp.sess].source_list, <<"a">>) = 1

\* C2: when an add_source or a remove that changed the list has completed,
\* the session's source list is the trusted_sources persisted for the
\* session's active project.
C2_MutationIsPersisted ==
    (lastOp.op \in {"add_source", "remove"} /\ lastOp.outcome \in {"accepted", "ok"})
       => /\ session_state[lastOp.sess].current_podcast_id # NO_ID
          /\ Row(session_state[lastOp.sess].current_podcast_id).trusted_sources
                = session_state[lastOp.sess].source_list

\* A remove has just emptied the list of the active project, and that is
\* what is persisted.
C2_Witness ==
    /\ lastOp.op = "remove"
    /\ lastOp.outcome = "ok"
    /\ session_state[lastOp.sess].source_list = <<>>
    /\ Row(lastOp.id).trusted_sources = <<>>

\* C3: once "Save & Sync" has succeeded, loading the saved project (the
\* widgets at the defaults the script computes from the row) yields the
\* theme, goal, target language and source list that were saved.
C3_SaveThenReload ==
    (lastOp.op = "save" /\ lastOp.outcome = "ok")
       => LET curr == Row(lastOp.id)
          IN  /\ ThemeWidget(curr, KEEP) = lastOp.sent.theme
              /\ GoalWidget(curr, KEEP) = lastOp.sent.focus
              /\ TargetLang(curr, KEEP, KEEP) = lastOp.sent.target_lang
              /\ curr.trusted_sources = lastOp.sent.source_list

Writes(op) ==
    \/ op.op = "add_source" /\ op.outcome = "accepted"
    \/ op.op \in {"remove", "save"} /\ op.outcome = "ok"

\* C4: every save and every source-list mutation replaces the persisted
\* source list of its project by the full list the writing session holds,
\* whatever was persisted before: a URL persisted by another session that
\* the writer does not hold is gone afterwards.
C4_LastWriteWins ==
    [][Writes(lastOp')
         => LET writer == session_state'[lastOp'.sess].source_list
                before == podcasts[lastOp'.id].trusted_sources
                after == podcasts'[lastOp'.id].trusted_sources
            IN  /\ after = writer
                /\ \A url \in Range(before) \ Range(writer) :
                      url \notin Range(after)]_vars

\* The session that wrote last has overwritten the URL the other session
\* of the same project holds.
C4_Witness ==
    /\ lastOp.op = "add_source"
    /\ lastOp.outcome = "accepted"
    /\ \E t \in Sessions \ {lastOp.sess} :
          /\ session_state[t].current_podcast_id = lastOp.id
          /\ \E url \in Range(session_state[t].source_list) :
                /\ url \notin Range(session_state[lastOp.sess].source_list)
                /\ url \notin Range(Row(lastOp.id).trusted_sources)

\* C5: add_source of a text that is empty once stripped, or whose stripped
\* form is already listed, changes neither the source list nor the
\* datastore and raises nothing; whenever add_source returns, accepting or
\* ignoring the text, the input field is empty.
C5_IgnoredAdd ==
    [][lastOp'.op = "add_source"
         => LET s == lastOp'.sess
                new_url == Strip(lastOp'.input)
            IN  /\ (new_url = <<>> \/ new_url \in Range(session_state[s].source_list))
                      => /\ lastOp'.outcome = "ignored"
                         /\ session_state'[s].source_list
                               = session_state[s].source_list
                         /\ podcasts' = podcasts
                         /\ faults' = faults
                /\ lastOp'.outcome \in {"accepted", "ignored"}
                      => session_state'[s].url_input = <<>>]_vars

\* add_source has just ignored a text of whitespace only.
C5_Witness ==
    /\ lastOp.op = "add_source"
    /\ lastOp.outcome = "ignored"
    /\ lastOp.input = <<" ">>
    /\ session_state[lastOp.sess].url_input = <<>>

\* C6: the "X" button of entry i turns a list of length n into one of
\* length n - 1 that lacks that URL and keeps the other URLs in their
\* order, and persists that list for the active project.
C6_RemoveAtIndex ==
    [][(lastOp'.op = "remove" /\ lastOp'.outcome = "ok")
         => LET s == lastOp'.sess
                i == lastOp'.idx
                old == session_state[s].source_list
                new == session_state'[s].source_list
            IN  /\ i \in 0 .. Len(old) - 1
                /\ Len(new) = Len(old) - 1
                /\ old[i + 1] \notin Range(new)
                /\ \A j \in DOMAIN new :
                      new[j] = IF j <= i THEN old[j] ELSE old[j + 1]
                /\ podcasts'[session_state[s].current_podcast_id].trusted_sources
                      = new]_vars

\* The middle one of three entries has just been removed.
C6_Witness ==
    /\ lastOp.op = "remove"
    /\ lastOp.outcome = "ok"
    /\ lastOp.idx = 1
    /\ Len(session_state[lastOp.sess].source_list) = 2
    /\ Row(lastOp.id).trusted_sources = session_state[lastOp.sess].source_list


Min(a, b) == IF a < b THEN a ELSE b

\* Items source i owes: none if its parse raised, else its first entries up
\* to the limit.
Owed(i) ==
    IF rss_sources[i].raises THEN 0
    ELSE Min(limit, Len(rss_sources[i].entries))

RECURSIVE OwedBefore(_)
OwedBefore(i) == IF i <= 1 THEN 0 ELSE OwedBefore(i - 1) + Owed(i - 1)

\* C7: fetch_all_news over k sources with limit m collects at most k * m
\* items; source i contributes min(m, its entries) items, none if its parse
\* raised, and the items stand in source order and, within a source, in
\* feed order, whatever the sources before it did.
C7_Aggregation ==
    fpc = "done"
       => LET k == Len(rss_sources)
          IN  /\ Len(articles) <= k * limit
              /\ Len(articles) = OwedBefore(k + 1)
              /\ \A i \in 1 .. k : \A j \in 1 .. Owed(i) :
                    articles[OwedBefore(i) + j] = Render(rss_sources[i].entries[j])

\* A source that raised is followed by one with more entries than the
\* limit, and the result holds the limit's worth of that later source.
C7_Witness ==
    /\ fpc = "done"
    /\ Len(rss_sources) = 2
    /\ rss_sources[1].raises
    /\ ~rss_sources[2].raises
    /\ Len(rss_sources[2].entries) > limit
    /\ limit = 2
    /\ Len(articles) = 2

DataOps == {"list", "add_source", "save", "create", "remove", "generate"}

\* C8: a session starts without an access token, gains one only in a step
\* whose authorization-code exchange returned a token, never loses it, and
\* issues no project read or write, source mutation or generation request
\* in a step it enters without a token.
C8_LoginGate ==
    /\ \A s \in Sessions : ~session_state[s].access_token
    /\ [][\A s \in Sessions :
            /\ session_state[s].access_token => session_state'[s].access_token
            /\ (~session_state[s].access_token /\ session_state'[s].access_token)
                  => /\ lastOp'.sess = s
                     /\ lastOp'.op = "exchange"
                     /\ lastOp'.outcome # "exchange_failed"
            /\ (lastOp'.sess = s /\ lastOp'.op \in DataOps)
                  => session_state[s].access_token]_vars

\* A session past the gate has sent a generation request.
C8_Witness ==
    /\ lastOp.op = "generate"
    /\ lastOp.outcome = "ok"
    /\ session_state[lastOp.sess].access_token

\* C9: a session that holds an access token holds the owner e-mail too.
C9_TokenImpliesEmail ==
    \A s \in Sessions :
        session_state[s].access_token => session_state[s].user_email # NO_EMAIL

\* C10: every project can be selected: some entry of its owner's "Project:"
\* selectbox makes that project's id and source list the active ones.
C10_EveryProjectSelectable ==
    \A i \in DOMAIN podcasts :
        LET data == SelectByOwner(podcasts, podcasts[i].owner_email)
            options == SelectOptions(data)
        IN  \E idx \in DOMAIN options :
               /\ options[idx] # NEW_PODCAST
               /\ OptionValue(data, options[idx]).id = podcasts[i].id

====
